---- MODULE Spec2Model ----
(***************************************************************************)
(* Model of the diff controller of Codediff-backend                        *)
(* (src/app/routes/diff.py): the start and rerun event generators, the     *)
(* stop request, the process-wide stop-flag set and the TestCase table.    *)
(* Each generator is cut at its yield statements and at its blocking       *)
(* run_program calls; one action is the code between two such points.      *)
(***************************************************************************)
EXTENDS Integers, Sequences, FiniteSets, TLC

\* ---------------------------------------------------------------- bounds
MaxTests == 2            \* largest max_tests a client requests in the model
MaxStored == 2           \* largest number of TestCases stored before a run

\* ------------------------------------------------------ program constants
MaxTestsLimit == 1000    \* upper limit of max_tests in StartDiff.get
NoMeasure == 0           \* time_used / memory_used left at None

StepCap == 1             \* judge steps followed of a run whose budget
                         \* exceeds MaxTests

\* max_tests as requests carry it: in range, below 1, above the limit
Requests == (1..MaxTests) \cup {0, MaxTestsLimit + 1}

Runs == {1, 2}
Solo == {1}             \* the run that Spec drives
Sessions == {1, 2}

\* ------------------------------------------------ sandbox result domains
Kinds == {"OK", "TLE", "RE"}
Measures == {[time |-> 1, mem |-> 2], [time |-> 2, mem |-> 1]}
UserMeasures == {[time |-> 2, mem |-> 1]}
GenOutputs == {<<"1">>}
UserOutputs == {<<"x">>, <<"x", " ", "\n">>, <<"y">>}
StdOutputs == {<<"x">>}

Outputs(role) ==
  IF role = "gen" THEN GenOutputs
  ELSE IF role = "user" THEN UserOutputs ELSE StdOutputs

\* run_program(exe, argv, input_data) -> (result, output, time, memory)
run_program(role) ==
  {[type |-> k, out |-> o, time |-> m.time, mem |-> m.mem] :
     k \in Kinds, o \in Outputs(role),
     m \in IF role = "user" THEN UserMeasures ELSE Measures}

\* run_compiler(code_file, exe_file, lang, std) -> (type, data)
run_compiler == {"status", "failed"}

\* ------------------------------------------------------- string helpers
Whitespace == {" ", "\n"}

RECURSIVE rstrip(_)
rstrip(s) ==
  IF s = <<>> THEN <<>>
  ELSE IF s[Len(s)] \in Whitespace THEN rstrip(SubSeq(s, 1, Len(s) - 1))
  ELSE s

\* str.split('\n'): the list of lines, always at least one (possibly empty)
RECURSIVE split(_)
split(s) ==
  IF \A k \in 1..Len(s) : s[k] # "\n" THEN <<s>>
  ELSE LET p == CHOOSE k \in 1..Len(s) :
                   s[k] = "\n" /\ \A j \in 1..(k - 1) : s[j] # "\n"
       IN <<SubSeq(s, 1, p - 1)>> \o split(SubSeq(s, p + 1, Len(s)))

RECURSIVE join(_)
join(ls) ==
  IF Len(ls) = 0 THEN <<>>
  ELSE IF Len(ls) = 1 THEN ls[1]
  ELSE ls[1] \o <<"\n">> \o join(Tail(ls))

\* '\n'.join([s.rstrip() for s in out.split('\n')]).rstrip()
normalized(out) ==
  LET ls == split(out)
  IN rstrip(join([k \in 1..Len(ls) |-> rstrip(ls[k])]))

\* f"{who} {kind}"
Prefixed(who, kind) == <<who, kind>>
StatusOK == <<"OK">>
StatusWA == <<"WA">>

\* ------------------------------------------------------------------ state
VARIABLES
  request_stop_set,   \* the module-level set of session ids asked to stop
  db,                 \* committed rows of the test_cases table
  nextId,             \* next autoincrement id of the table
  pc,                 \* per run: where its generator stands
  mode,               \* per run: "start" or "rerun"
  sid,                \* per run: session_id
  max_tests,          \* per run: the budget passed to diff
  requested,          \* per run: max_tests as the request carried it
  gen_code,           \* per run: TRUE when the generator blob is present
  ci,                 \* per run: index into the compile list
  lastCompile,        \* per run: type returned by the last run_compiler
  i,                  \* per run: loop variable
  cur,                \* per run: current_testcase
  test_cases,         \* per run (rerun): ids loaded from session.test_cases
  temp_dir,           \* per run: TRUE while the TemporaryDirectory exists
  events,             \* per run: the records yielded so far
  progs,              \* per run: history of run_program calls
  persisted,          \* per run: history of committed cases
  stopSeen,           \* per run: the membership test found the session
  stopHist,           \* per run: an iteration has ended while the session
                      \*          was in the stop-flag set
  cleared,            \* per run: the discard on entry removed a stop flag
  launched,           \* the sandboxed children of one judge step, in order
  sb_req,             \* FirejailSandbox: arguments of the last execute_code
  sb_dir,             \* FirejailSandbox: the directory tmpdir names
  sb_cmds,            \* FirejailSandbox: the _run_command calls of that call
  sb_result,          \* FirejailSandbox: what that call returned or raised
  connections,        \* SSEManager.connections: session -> client -> conn
  mgr_last            \* SSEManager: the last call, its result, whom it dropped

diffVars == <<request_stop_set, db, nextId, pc, mode, sid, max_tests, requested,
              gen_code, ci, lastCompile, i, cur, test_cases, temp_dir, events,
              progs, persisted, stopSeen, stopHist, cleared>>

\* the state outside the diff controller's runs
sandboxVars == <<sb_req, sb_dir, sb_cmds, sb_result>>
managerVars == <<connections, mgr_last>>
envVars == <<launched, sandboxVars, managerVars>>

vars == <<diffVars, envVars>>

\* TestCase(session_id=..., status='', input_data='', user_output='', std_output='')
NewTestCase(s) ==
  [id |-> 0, session_id |-> s, status |-> <<>>, input_data |-> <<>>,
   user_output |-> <<>>, std_output |-> <<>>,
   time_used |-> NoMeasure, memory_used |-> NoMeasure]

NoCase == NewTestCase(0)

\* a case as an earlier, fully passing start run leaves it
StoredCase(k) ==
  [id |-> k, session_id |-> 1, status |-> StatusOK,
   input_data |-> IF k % 2 = 1 THEN <<"1">> ELSE <<"2">>,
   user_output |-> <<"x">>, std_output |-> <<"x">>,
   time_used |-> 1, memory_used |-> 1]

\* json.dumps(data, ensure_ascii=False): one line of text
dumps(data) == <<"{", data, "}">>

\* sse_response(event_type, data) without an event id: the lines
\* 'event: ...', 'data: ...' and '' joined by '\n'
sse_response(event_type, data) ==
  join(<< <<"event: ", event_type>>, <<"data: ">> \o dumps(data), <<>> >>)

\* the payload handed to sse_response and the record it returns
Event(type, what, num, total, tc) ==
  [type |-> type, what |-> what, num |-> num, total |-> total, tc |-> tc,
   wire |-> sse_response(type, what)]

Terminal == {"finish", "failed", "error"}

BlobsAlt(m) == IF m = "start" THEN <<"std", "user", "gen">> ELSE <<"std", "user">>
Blobs(m) == IF m = "start" THEN <<"user", "std", "gen">> ELSE <<"user", "std">>

Init ==
  /\ request_stop_set = {}
  /\ \E k \in 0..MaxStored :
       db = {StoredCase(j) : j \in 1..k} /\ nextId = k + 1
  /\ pc = [r \in Runs |-> "idle"]
  /\ mode = [r \in Runs |-> "none"]
  /\ sid = [r \in Runs |-> 0]
  /\ max_tests = [r \in Runs |-> 0]
  /\ requested = [r \in Runs |-> 0]
  /\ gen_code = [r \in Runs |-> TRUE]
  /\ ci = [r \in Runs |-> 0]
  /\ lastCompile = [r \in Runs |-> "none"]
  /\ i = [r \in Runs |-> 0]
  /\ cur = [r \in Runs |-> NoCase]
  /\ test_cases = [r \in Runs |-> <<>>]
  /\ temp_dir = [r \in Runs |-> FALSE]
  /\ events = [r \in Runs |-> <<>>]
  /\ progs = [r \in Runs |-> <<>>]
  /\ persisted = [r \in Runs |-> <<>>]
  /\ stopSeen = [r \in Runs |-> FALSE]
  /\ stopHist = [r \in Runs |-> FALSE]
  /\ cleared = [r \in Runs |-> FALSE]
  /\ launched = <<>>
  /\ sb_req = [lang |-> "", std |-> "", input_data |-> "None",
               profile_type |-> "code-exec"]
  /\ sb_dir = [exists |-> FALSE, files |-> {}]
  /\ sb_cmds = <<>>
  /\ sb_result = [kind |-> "none", returncode |-> 0, error |-> "none"]
  /\ connections = <<>>
  /\ mgr_last = [op |-> "none", ret |-> 0, dropped |-> {}]

\* ------------------------------------------------------- code predicates
\* max_tests < 1 or max_tests > 1000 -> 1000
ClampMaxTests(n) == IF n < 1 \/ n > MaxTestsLimit THEN MaxTestsLimit ELSE n

\* if type == 'failed': return
CompileFailedAlt(type) == FALSE
CompileFailed(type) == type = "failed"

\* if xxx_result['type'] != 'OK': ... break
FailedAlt(res) == FALSE
Failed(res) == res.type # "OK"

\* for i in range(max_tests): is there an iteration after iteration k
HasNextAlt(k, n) == k + 1 <= n
HasNext(k, n) == k + 1 < n

\* f"Running test {i + 1}/{max_tests}": the label of iteration k
TestLabelAlt(k) == k
TestLabel(k) == k + 1

\* every non-OK step ends in "break": the loop goes on only after an OK step
LoopContinuesAlt(status, k, n) == HasNext(k, n)
LoopContinues(status, k, n) == status = StatusOK /\ HasNext(k, n)

\* current_testcase.status = f"Generator {gen_result['type']}"
GenStatusAlt(res) == Prefixed("User", res.type)
GenStatus(res) == Prefixed("Generator", res.type)
UserStatus(res) == Prefixed("User", res.type)
StdStatus(res) == Prefixed("Std", res.type)

\* normalized_user_output != normalized_std_output -> 'WA' else 'OK'
CompareStatus(user_output, std_output) ==
  IF normalized(user_output) # normalized(std_output) THEN StatusWA ELSE StatusOK

\* request_stop_set.discard(session_id)
DiscardStopAll(S, s) == {}
DiscardStopAlt(S, s) == S
DiscardStop(S, s) == S \ {s}

\* TestCase.query.filter_by(session_id=session_id).delete(); commit
DeleteSessionAlt(d, s) == d
DeleteSession(d, s) == {t \in d : t.session_id # s}

\* leaving the "with TemporaryDirectory()" block removes the directory
TempDirExitAlt(t, r) == t
TempDirExit(t, r) == [t EXCEPT ![r] = FALSE]

\* session.test_cases: the ids of the session's rows, in table order
RECURSIVE SortedIds(_)
SortedIds(S) ==
  IF S = {} THEN <<>>
  ELSE LET m == CHOOSE x \in S : \A y \in S : x <= y
       IN <<m>> \o SortedIds(S \ {m})

SessionCases(s) == SortedIds({t.id : t \in {u \in db : u.session_id = s}})
Row(k) == CHOOSE t \in db : t.id = k

Yield(r, e) == events' = [events EXCEPT ![r] = Append(@, e)]
\* the run_program calls of the current judge step, in call order
Ran(r, role, res, first) ==
  progs' = [progs EXCEPT ![r] =
              Append(IF first THEN <<>> ELSE @,
                     [role |-> role, type |-> res.type,
                      time |-> IF role = "user" THEN res.time ELSE NoMeasure,
                      mem |-> IF role = "user" THEN res.mem ELSE NoMeasure])]

\* db.session.add(tc); db.session.commit() of a new row
CommitNewAlt(r, tc) ==
  /\ db' = db
  /\ nextId' = nextId + 1
  /\ persisted' = [persisted EXCEPT ![r] = Append(@, tc)]
CommitNew(r, tc) ==
  /\ db' = db \cup {tc}
  /\ nextId' = nextId + 1
  /\ persisted' = [persisted EXCEPT ![r] = Append(@, tc)]

\* db.session.commit() of a row loaded from the table and changed in place
CommitRow(r, tc) ==
  /\ db' = {t \in db : t.id # tc.id} \cup {tc}
  /\ nextId' = nextId
  /\ persisted' = [persisted EXCEPT ![r] = Append(@, tc)]

\* ---------------------------------------------------------------- actions
\* StartDiff.get: read the arguments and the blobs, hand the generator over
StartGet(r, s, n, g) ==
  /\ pc[r] = "idle"
  /\ pc' = [pc EXCEPT ![r] = "created"]
  /\ mode' = [mode EXCEPT ![r] = "start"]
  /\ sid' = [sid EXCEPT ![r] = s]
  /\ requested' = [requested EXCEPT ![r] = n]
  /\ max_tests' = [max_tests EXCEPT ![r] = ClampMaxTests(n)]
  /\ gen_code' = [gen_code EXCEPT ![r] = g]
  /\ UNCHANGED <<request_stop_set, db, nextId, ci, lastCompile, i, cur,
                 test_cases, temp_dir, events, progs, persisted, stopSeen,
                 stopHist, envVars, cleared>>

\* RerunDiff.get
RerunGet(r, s) ==
  /\ pc[r] = "idle"
  /\ pc' = [pc EXCEPT ![r] = "created"]
  /\ mode' = [mode EXCEPT ![r] = "rerun"]
  /\ sid' = [sid EXCEPT ![r] = s]
  /\ UNCHANGED <<request_stop_set, db, nextId, max_tests, requested, envVars, cleared, gen_code, ci,
                 lastCompile, i, cur, test_cases, temp_dir, events, progs,
                 persisted, stopSeen, stopHist>>

\* StartDiff.diff up to its first yield
DiffEnter(r) ==
  /\ pc[r] = "created" /\ mode[r] = "start"
  /\ request_stop_set' = DiscardStop(request_stop_set, sid[r])
  /\ cleared' = [cleared EXCEPT ![r] = sid[r] \in request_stop_set]
  /\ db' = DeleteSession(db, sid[r])
  /\ temp_dir' = [temp_dir EXCEPT ![r] = TRUE]
  /\ ci' = [ci EXCEPT ![r] = 1]
  /\ Yield(r, Event("status", "Compiling user", 0, 0, NoCase))
  /\ pc' = [pc EXCEPT ![r] = "compile_status"]
  /\ UNCHANGED <<nextId, mode, sid, max_tests, requested, envVars, gen_code, lastCompile, i, cur,
                 test_cases, progs, persisted, stopSeen, stopHist>>

\* RerunDiff.rerun up to its first yield
RerunEnter(r) ==
  /\ pc[r] = "created" /\ mode[r] = "rerun"
  /\ request_stop_set' = DiscardStop(request_stop_set, sid[r])
  /\ cleared' = [cleared EXCEPT ![r] = sid[r] \in request_stop_set]
  /\ test_cases' = [test_cases EXCEPT ![r] = SessionCases(sid[r])]
  /\ temp_dir' = [temp_dir EXCEPT ![r] = TRUE]
  /\ ci' = [ci EXCEPT ![r] = 1]
  /\ Yield(r, Event("status", "Compiling user", 0, 0, NoCase))
  /\ pc' = [pc EXCEPT ![r] = "compile_status"]
  /\ UNCHANGED <<db, nextId, mode, sid, max_tests, requested, envVars, gen_code, lastCompile, i,
                 cur, progs, persisted, stopSeen, stopHist>>

CompilingText(b) ==
  IF b = "user" THEN "Compiling user"
  ELSE IF b = "std" THEN "Compiling std" ELSE "Compiling gen"

\* stage the blob, compile it, yield the compiler's event
Compile(r) ==
  /\ pc[r] = "compile_status"
  /\ LET b == Blobs(mode[r])[ci[r]] IN
       IF b = "gen" /\ ~gen_code[r]
       THEN \* code['content'] on None raises inside the with block
            /\ pc' = [pc EXCEPT ![r] = "raised"]
            /\ temp_dir' = TempDirExit(temp_dir, r)
            /\ UNCHANGED <<lastCompile, events>>
       ELSE \E type \in run_compiler :
            /\ lastCompile' = [lastCompile EXCEPT ![r] = type]
            /\ Yield(r, Event(type, b, 0, 0, NoCase))
            /\ pc' = [pc EXCEPT ![r] = "compile_result"]
            /\ UNCHANGED temp_dir
  /\ UNCHANGED <<request_stop_set, db, nextId, mode, sid, max_tests, requested, envVars, cleared, gen_code,
                 ci, i, cur, test_cases, progs, persisted, stopSeen, stopHist>>

\* after the compiler's event: return on failure, else the next blob or the loop
AfterCompile(r) ==
  /\ pc[r] = "compile_result"
  /\ IF CompileFailed(lastCompile[r])
     THEN /\ pc' = [pc EXCEPT ![r] = "done"]
          /\ temp_dir' = TempDirExit(temp_dir, r)
          /\ UNCHANGED <<ci, i, cur, events>>
     ELSE IF ci[r] < Len(Blobs(mode[r]))
     THEN /\ ci' = [ci EXCEPT ![r] = @ + 1]
          /\ Yield(r, Event("status", CompilingText(Blobs(mode[r])[ci[r] + 1]),
                            0, 0, NoCase))
          /\ pc' = [pc EXCEPT ![r] = "compile_status"]
          /\ UNCHANGED <<i, cur, temp_dir>>
     ELSE IF mode[r] = "start"
     THEN /\ i' = [i EXCEPT ![r] = 0]
          /\ cur' = [cur EXCEPT ![r] = NoCase]
          /\ Yield(r, Event("status", "Running test", TestLabel(0),
                            max_tests[r], NoCase))
          /\ pc' = [pc EXCEPT ![r] = "test_status"]
          /\ UNCHANGED <<ci, temp_dir>>
     ELSE IF test_cases[r] = <<>>
     THEN /\ Yield(r, Event("finish", "", 0, 0, NoCase))
          /\ pc' = [pc EXCEPT ![r] = "finish_yield"]
          /\ UNCHANGED <<ci, i, cur, temp_dir>>
     ELSE /\ i' = [i EXCEPT ![r] = 0]
          /\ Yield(r, Event("status", "Running test", 1, Len(test_cases[r]),
                            NoCase))
          /\ pc' = [pc EXCEPT ![r] = "test_status"]
          /\ UNCHANGED <<ci, cur, temp_dir>>
  /\ UNCHANGED <<request_stop_set, db, nextId, mode, sid, max_tests, requested, envVars, cleared, gen_code,
                 lastCompile, test_cases, progs, persisted, stopSeen, stopHist>>

\* session_id in request_stop_set
StopRequestedAlt(S, s) == FALSE
StopRequested(S, s) == s \in S

\* an iteration ends: note whether the flag is set at that moment
AtCheck(h, r) == h \/ sid[r] \in request_stop_set

\* start: db.session.add + commit of the step's case, then where the loop
\* goes: finish on a stop flag after an OK step, the next iteration, or the
\* test_result below the loop
EndStep(r, tc) ==
  LET c == [tc EXCEPT !.id = nextId] IN
  /\ CommitNew(r, c)
  /\ cur' = [cur EXCEPT ![r] = c]
  /\ stopHist' = [stopHist EXCEPT ![r] = AtCheck(@, r)]
  /\ UNCHANGED request_stop_set
  /\ IF c.status = StatusOK /\ StopRequested(request_stop_set, sid[r])
     THEN /\ Yield(r, Event("finish", "", 0, 0, NoCase))
          /\ stopSeen' = [stopSeen EXCEPT ![r] = TRUE]
          /\ pc' = [pc EXCEPT ![r] = "finish_yield"]
          /\ UNCHANGED i
     ELSE IF LoopContinues(c.status, i[r], max_tests[r])
     THEN /\ i' = [i EXCEPT ![r] = @ + 1]
          /\ Yield(r, Event("test_result", "", i[r] + 1, 0, c))
          /\ pc' = [pc EXCEPT ![r] = "loop_result"]
          /\ UNCHANGED stopSeen
     ELSE /\ Yield(r, Event("test_result", "", max_tests[r], 0, c))
          /\ pc' = [pc EXCEPT ![r] = "final_result"]
          /\ UNCHANGED <<i, stopSeen>>

\* current_testcase.input_data = input_data
GenFields(tc, res) == [tc EXCEPT !.input_data = res.out]

\* current_testcase.user_output / time_used / memory_used = ...
UserFields(tc, res) ==
  [tc EXCEPT !.user_output = res.out,
             !.time_used = res.time,
             !.memory_used = res.mem]

\* current_testcase.std_output = std_output
StdFieldsAlt(tc, res) ==
  [tc EXCEPT !.std_output = res.out,
             !.time_used = res.time,
             !.memory_used = res.mem]
StdFields(tc, res) == [tc EXCEPT !.std_output = res.out]

\* start: new TestCase, run the generator
GenDone(r) ==
  /\ pc[r] = "test_status" /\ mode[r] = "start"
  /\ max_tests[r] <= MaxTests \/ i[r] < StepCap
  /\ \E res \in run_program("gen") :
       LET tc == GenFields(NewTestCase(sid[r]), res) IN
       /\ Ran(r, "gen", res, TRUE)
       /\ IF Failed(res)
          THEN EndStep(r, [tc EXCEPT !.status = GenStatus(res)])
          ELSE /\ cur' = [cur EXCEPT ![r] = tc]
               /\ pc' = [pc EXCEPT ![r] = "user_running"]
               /\ UNCHANGED <<request_stop_set, db, nextId, i, events,
                              persisted, stopSeen, stopHist>>
  /\ UNCHANGED <<mode, sid, max_tests, requested, envVars, cleared, gen_code, ci, lastCompile, test_cases,
                 temp_dir>>

\* start: run the user program
UserDone(r) ==
  /\ pc[r] = "user_running" /\ mode[r] = "start"
  /\ \E res \in run_program("user") :
       LET tc == UserFields(cur[r], res) IN
       /\ Ran(r, "user", res, FALSE)
       /\ IF Failed(res)
          THEN EndStep(r, [tc EXCEPT !.status = UserStatus(res)])
          ELSE /\ cur' = [cur EXCEPT ![r] = tc]
               /\ pc' = [pc EXCEPT ![r] = "std_running"]
               /\ UNCHANGED <<request_stop_set, db, nextId, i, events,
                              persisted, stopSeen, stopHist>>
  /\ UNCHANGED <<mode, sid, max_tests, requested, envVars, cleared, gen_code, ci, lastCompile, test_cases,
                 temp_dir>>

\* start: run the reference, compare, persist, test the stop flag, loop
StdDone(r) ==
  /\ pc[r] = "std_running" /\ mode[r] = "start"
  /\ \E res \in run_program("std") :
       LET tc == StdFields(cur[r], res) IN
       /\ Ran(r, "std", res, FALSE)
       /\ IF Failed(res)
          THEN EndStep(r, [tc EXCEPT !.status = StdStatus(res)])
          ELSE EndStep(r, [tc EXCEPT !.status =
                             CompareStatus(tc.user_output, tc.std_output)])
  /\ UNCHANGED <<mode, sid, max_tests, requested, envVars, cleared, gen_code, ci, lastCompile, test_cases,
                 temp_dir>>

\* start: after the test_result yielded at the top of an iteration
AfterLoopResult(r) ==
  /\ pc[r] = "loop_result"
  /\ Yield(r, Event("status", "Running test", TestLabel(i[r]), max_tests[r],
                    NoCase))
  /\ pc' = [pc EXCEPT ![r] = "test_status"]
  /\ UNCHANGED <<request_stop_set, db, nextId, mode, sid, max_tests, requested, envVars, cleared, gen_code,
                 ci, lastCompile, i, cur, test_cases, temp_dir, progs,
                 persisted, stopSeen, stopHist>>

\* start: after the test_result yielded below the loop
AfterFinalResult(r) ==
  /\ pc[r] = "final_result"
  /\ Yield(r, Event("finish", "", 0, 0, NoCase))
  /\ pc' = [pc EXCEPT ![r] = "finish_yield"]
  /\ UNCHANGED <<request_stop_set, db, nextId, mode, sid, max_tests, requested, envVars, cleared, gen_code,
                 ci, lastCompile, i, cur, test_cases, temp_dir, progs,
                 persisted, stopSeen, stopHist>>

\* rerun: user_output, status, time_used, memory_used of the stored case
RerunUserFieldsAlt(tc, res) ==
  [tc EXCEPT !.user_output = res.out,
             !.input_data = res.out,
             !.status = UserStatus(res),
             !.time_used = res.time,
             !.memory_used = res.mem]
RerunUserFields(tc, res) ==
  [tc EXCEPT !.user_output = res.out,
             !.status = UserStatus(res),
             !.time_used = res.time,
             !.memory_used = res.mem]

\* rerun: std_output and status of the stored case
RerunStdFields(tc, res) ==
  [tc EXCEPT !.std_output = res.out, !.status = StdStatus(res)]

\* rerun: take the stored case, run the user program
RerunUserDone(r) ==
  /\ pc[r] = "test_status" /\ mode[r] = "rerun"
  /\ \E res \in run_program("user") :
       LET tc == Row(test_cases[r][i[r] + 1]) IN
       /\ Ran(r, "user", res, TRUE)
       /\ cur' = [cur EXCEPT ![r] = RerunUserFields(tc, res)]
  /\ pc' = [pc EXCEPT ![r] = "std_running"]
  /\ UNCHANGED <<request_stop_set, db, nextId, mode, sid, max_tests, requested, envVars, cleared, gen_code,
                 ci, lastCompile, i, test_cases, temp_dir, events, persisted,
                 stopSeen, stopHist>>

\* rerun: run the reference, compare, persist, yield the test_result
RerunStdDone(r) ==
  /\ pc[r] = "std_running" /\ mode[r] = "rerun"
  /\ \E res \in run_program("std") :
       LET t1 == RerunStdFields(cur[r], res)
           c == [t1 EXCEPT !.status =
                    CompareStatus(t1.user_output, t1.std_output)]
       IN
       /\ Ran(r, "std", res, FALSE)
       /\ CommitRow(r, c)
       /\ cur' = [cur EXCEPT ![r] = c]
       /\ Yield(r, Event("test_result", "", i[r], 0, c))
  /\ pc' = [pc EXCEPT ![r] = "rerun_result"]
  /\ UNCHANGED <<request_stop_set, mode, sid, max_tests, requested, envVars, cleared, gen_code, ci,
                 lastCompile, i, test_cases, temp_dir, stopSeen, stopHist>>

\* rerun: after the test_result: test the stop flag, next case or finish
AfterRerunResult(r) ==
  /\ pc[r] = "rerun_result"
  /\ stopHist' = [stopHist EXCEPT ![r] = AtCheck(@, r)]
  /\ IF StopRequested(request_stop_set, sid[r])
     THEN /\ Yield(r, Event("finish", "", 0, 0, NoCase))
          /\ stopSeen' = [stopSeen EXCEPT ![r] = TRUE]
          /\ pc' = [pc EXCEPT ![r] = "finish_yield"]
          /\ UNCHANGED i
     ELSE IF i[r] + 1 < Len(test_cases[r])
     THEN /\ i' = [i EXCEPT ![r] = @ + 1]
          /\ Yield(r, Event("status", "Running test", i[r] + 2,
                            Len(test_cases[r]), NoCase))
          /\ pc' = [pc EXCEPT ![r] = "test_status"]
          /\ UNCHANGED stopSeen
     ELSE /\ Yield(r, Event("finish", "", 0, 0, NoCase))
          /\ pc' = [pc EXCEPT ![r] = "finish_yield"]
          /\ UNCHANGED <<i, stopSeen>>
  /\ UNCHANGED <<request_stop_set, db, nextId, mode, sid, max_tests, requested, envVars, cleared, gen_code,
                 ci, lastCompile, cur, test_cases, temp_dir, progs, persisted>>

\* the generator is resumed after its finish event and ends
AfterFinish(r) ==
  /\ pc[r] = "finish_yield"
  /\ pc' = [pc EXCEPT ![r] = "done"]
  /\ temp_dir' = TempDirExit(temp_dir, r)
  /\ UNCHANGED <<request_stop_set, db, nextId, mode, sid, max_tests, requested, envVars, cleared, gen_code,
                 ci, lastCompile, i, cur, test_cases, events, progs,
                 persisted, stopSeen, stopHist>>

\* the points where the generator is suspended on a yielded event
Suspended == {"compile_status", "compile_result", "test_status", "loop_result",
              "final_result", "rerun_result", "finish_yield"}

\* client disconnect: the generator is closed where it is suspended
Abandon(r) ==
  /\ pc[r] \in Suspended \cup {"created"}
  /\ pc' = [pc EXCEPT ![r] = "abandoned"]
  /\ temp_dir' = TempDirExit(temp_dir, r)
  /\ UNCHANGED <<request_stop_set, db, nextId, mode, sid, max_tests, requested, envVars, cleared, gen_code,
                 ci, lastCompile, i, cur, test_cases, events, progs,
                 persisted, stopSeen, stopHist>>

\* the points from which the next call (query, staging, compiler, program,
\* commit) can raise
CanRaise == {"created", "compile_status", "test_status", "user_running",
             "std_running"}

\* an exception raised by a call of the controller: nothing catches it
Crash(r) ==
  /\ pc[r] \in CanRaise
  /\ pc' = [pc EXCEPT ![r] = "raised"]
  /\ temp_dir' = TempDirExit(temp_dir, r)
  /\ UNCHANGED <<request_stop_set, db, nextId, mode, sid, max_tests, requested, envVars, cleared, gen_code,
                 ci, lastCompile, i, cur, test_cases, events, progs,
                 persisted, stopSeen, stopHist>>

\* request_stop_set.add(session_id)
StopSetAlt(S, s) == IF s \in S THEN S \ {s} ELSE S \cup {s}
StopSet(S, s) == S \cup {s}

\* return {'stopped': True, 'session_id': session_id}, 200
StopReply(s) == [stopped |-> TRUE, session_id |-> s, code |-> 200]

\* StopDiff.post
Stop(s) ==
  /\ request_stop_set' = StopSet(request_stop_set, s)
  /\ UNCHANGED <<db, nextId, pc, mode, sid, max_tests, requested, envVars, cleared, gen_code, ci,
                 lastCompile, i, cur, test_cases, temp_dir, events, progs,
                 persisted, stopSeen, stopHist>>

Step(r) ==
  \/ \E s \in Sessions, n \in Requests, g \in BOOLEAN : StartGet(r, s, n, g)
  \/ \E s \in Sessions : RerunGet(r, s)
  \/ DiffEnter(r)
  \/ RerunEnter(r)
  \/ Compile(r)
  \/ AfterCompile(r)
  \/ GenDone(r)
  \/ UserDone(r)
  \/ StdDone(r)
  \/ AfterLoopResult(r)
  \/ AfterFinalResult(r)
  \/ RerunUserDone(r)
  \/ RerunStdDone(r)
  \/ AfterRerunResult(r)
  \/ AfterFinish(r)
  \/ Abandon(r)
  \/ Crash(r)

Next ==
  \/ \E r \in Solo : Step(r)
  \/ \E s \in Sessions : Stop(s)

Spec == Init /\ [][Next]_vars

\* ------------------------------------------------ two overlapping runs
\* the runs followed when two requests overlap: start requests for session 1
\* with the generator present, every compile and every program succeeding,
\* the user program printing "x"
PairScope ==
  \A r \in Runs :
    /\ mode[r] \in {"none", "start"}
    /\ sid[r] \in {0, 1}
    /\ max_tests[r] <= MaxTests
    /\ gen_code[r]
    /\ lastCompile[r] # "failed"
    /\ pc[r] # "raised"
    /\ \A k \in 1..Len(progs[r]) :
         progs[r][k].type = "OK"
    /\ cur[r].user_output \in {<<>>, <<"x">>}

\* a step of either run, within the scope
StepPair(r) == Step(r) /\ PairScope'

NextPair ==
  \/ \E r \in Runs : StepPair(r)
  \/ Stop(1)

SpecPair == Init /\ [][NextPair]_vars

\* ------------------------------------------ sandbox outcome of a child
MaxExit == 3             \* largest exit code a child returns in the model
ExitCodes == 0..MaxExit
Signals == {"SIGXCPU", "SIGXFSZ", "SIGKILL", "SIGSEGV"}

\* exit_status of a sandboxed child: exited, killed by a signal, neither
ExitStatuses ==
  {[how |-> "exited", code |-> c, sig |-> "none"] : c \in ExitCodes}
    \cup {[how |-> "signaled", code |-> 0, sig |-> g] : g \in Signals}
    \cup {[how |-> "other", code |-> 0, sig |-> "none"]}

\* verdict_kind derived from exit_status by the sandbox launcher
verdict_kind(st) ==
  IF st.how = "exited" THEN "OK"
  ELSE IF st.how = "signaled"
       THEN IF st.sig = "SIGXCPU" THEN "TLE"
            ELSE IF st.sig = "SIGXFSZ" THEN "OLE"
            ELSE IF st.sig = "SIGKILL" THEN "KILLED" ELSE "RE"
       ELSE "UKE"

JudgeRoles == <<"gen", "user", "std">>

\* one run_program call of a judge step: the generator, then the user
\* program, then the reference, each only when the one before it was not
\* found failed
Launch ==
  /\ Len(launched) < Len(JudgeRoles)
  /\ launched # <<>> => ~Failed(launched[Len(launched)])
  /\ \E st \in ExitStatuses :
       launched' = Append(launched, [role |-> JudgeRoles[Len(launched) + 1],
                                     st |-> st, type |-> verdict_kind(st)])
  /\ UNCHANGED <<diffVars, sandboxVars, managerVars>>

NextLaunch == Launch

SpecLaunch == Init /\ [][NextLaunch]_vars

TypeOK ==
  /\ request_stop_set \subseteq Sessions
  /\ \A r \in Runs : pc[r] \in Suspended \cup CanRaise \cup
                       {"idle", "done", "abandoned", "raised"}

\* ------------------------------------------------------ FirejailSandbox
Langs == {"c", "cpp", "c11", "c17", "c++11", "c++17", "c++20",
          "C", "CPP", "java", "python", ""}
Stds == {"", "c++17"}
InputDatas == {"None", "", "1"}
Profiles == {"code-exec", "generator"}

\* str.lower() on the language identifiers of the model
lower(l) == IF l = "C" THEN "c" ELSE IF l = "CPP" THEN "cpp" ELSE l

\* if input_data: None and '' are false
Truthy(d) == d \notin {"None", ""}

\* ext_map.get(lang, 'cpp')
ext(lang) == IF lang \in {"c", "c11", "c17"} THEN "c" ELSE "cpp"
CodeFile(e) == IF e = "c" THEN "code.c" ELSE "code.cpp"

\* leaving the with tempfile.TemporaryDirectory() block of _prepare_code
PrepareExitAlt(d) == d
PrepareExit(d) == [exists |-> FALSE, files |-> {}]

\* _prepare_code: make the directory, write the code and the input file,
\* return the directory's name
prepare_code(req) ==
  PrepareExit([exists |-> TRUE,
               files |-> {CodeFile(ext(lower(req.lang)))}
                           \cup (IF Truthy(req.input_data) THEN {"input.txt"} ELSE {})])

\* _build_compile_command: the compiler, or the ValueError it raises
build_compile_commandAlt(lang) ==
  IF lang \in {"c", "c11", "c17"} THEN "gcc" ELSE "g++"
build_compile_command(lang) ==
  IF lang \in {"c", "c11", "c17"} THEN "gcc"
  ELSE IF lang \in {"cpp", "c++11", "c++17", "c++20"} THEN "g++"
  ELSE "ValueError"

\* the source file the compile command names
CompileSource(lang) == IF build_compile_command(lang) = "gcc" THEN "code.c" ELSE "code.cpp"

\* _build_run_command
build_run_command(input_data) == IF Truthy(input_data) THEN "timeout" ELSE "a.out"

\* _run_command: subprocess.run with cwd = tmpdir; a missing cwd raises and
\* is returned as EXECUTION_ERROR, the timeout as TIMEOUT
run_command(d) ==
  IF d.exists
  THEN {[returncode |-> 0, error |-> "none"],
        [returncode |-> 1, error |-> "none"],
        [returncode |-> -9, error |-> "TIMEOUT"]}
  ELSE {[returncode |-> -1, error |-> "EXECUTION_ERROR"]}

\* Path(tmpdir).rmdir() inside try/except: only an existing empty directory
\* is removed
rmdir(d) == IF d.exists /\ d.files = {} THEN [exists |-> FALSE, files |-> {}] ELSE d

CommandRecord(cmd, d, res) ==
  [cmd |-> cmd, exists |-> d.exists, files |-> d.files,
   returncode |-> res.returncode]

\* FirejailSandbox.execute_code
execute_code(req) ==
  LET tmpdir == prepare_code(req)
      lang == lower(req.lang)
      compiler == build_compile_command(lang)
  IN /\ sb_req' = req
     /\ IF compiler = "ValueError"
        THEN /\ sb_cmds' = <<>>
             /\ sb_dir' = tmpdir
             /\ sb_result' = [kind |-> "raised", returncode |-> 0,
                              error |-> "ValueError"]
        ELSE \E c \in run_command(tmpdir) :
               LET built == IF c.returncode = 0
                            THEN [tmpdir EXCEPT !.files = @ \cup {"a.out"}]
                            ELSE tmpdir
                   e1 == CommandRecord(compiler, tmpdir, c)
               IN IF c.returncode # 0
                  THEN /\ sb_cmds' = <<e1>>
                       /\ sb_dir' = rmdir(built)
                       /\ sb_result' = [kind |-> "returned",
                                        returncode |-> c.returncode,
                                        error |-> "COMPILATION_FAILED"]
                  ELSE \E x \in run_command(built) :
                         /\ sb_cmds' = <<e1, CommandRecord(build_run_command(req.input_data), built, x)>>
                         /\ sb_dir' = rmdir(built)
                         /\ sb_result' = [kind |-> "returned",
                                          returncode |-> x.returncode,
                                          error |-> x.error]
     /\ UNCHANGED <<diffVars, launched, managerVars>>

NextSandbox ==
  \E l \in Langs, t \in Stds, d \in InputDatas, p \in Profiles :
    execute_code([lang |-> l, std |-> t, input_data |-> d, profile_type |-> p])

SpecSandbox == Init /\ [][NextSandbox]_vars

\* ----------------------------------------------------------- SSEManager
Clients == {1, 2}
Streams == {"ok", "broken"}      \* "broken": write or flush raises

\* time since last_heartbeat: 0 at most 30 s, 1 more than 30 s, 2 more than 300 s
Fresh == 0
Due == 1
Stale == 2

\* dict operations
Put(f, k, v) == [x \in DOMAIN f \cup {k} |-> IF x = k THEN v ELSE f[x]]
Del(f, k) == [x \in DOMAIN f \ {k} |-> f[x]]

\* register_connection: the dict after the call
register_connection(conns, s, c, stream) ==
  LET c1 == IF s \notin DOMAIN conns THEN Put(conns, s, <<>>) ELSE conns
  IN Put(c1, s, Put(c1[s], c, [stream |-> stream, age |-> Fresh]))

\* unregister_connection: the dict after the call
unregister_connectionAlt(conns, s, c) ==
  IF s \in DOMAIN conns /\ c \in DOMAIN conns[s]
  THEN Put(conns, s, Del(conns[s], c))
  ELSE conns
unregister_connection(conns, s, c) ==
  IF s \in DOMAIN conns /\ c \in DOMAIN conns[s]
  THEN LET m == Del(conns[s], c)
       IN IF DOMAIN m = {} THEN Del(conns, s) ELSE Put(conns, s, m)
  ELSE conns

\* for client_id in failed_clients: self.unregister_connection(...)
RECURSIVE UnregisterAll(_, _, _)
UnregisterAll(conns, s, cs) ==
  IF cs = {} THEN conns
  ELSE LET c == CHOOSE x \in cs : TRUE
       IN UnregisterAll(unregister_connection(conns, s, c), s, cs \ {c})

\* conn['last_heartbeat'] = now for the clients written to
Touch(conns, s, cs) ==
  Put(conns, s, [c \in DOMAIN conns[s] |->
                   IF c \in cs THEN [conns[s][c] EXCEPT !.age = Fresh]
                   ELSE conns[s][c]])

FailedClients(conns, s) == {c \in DOMAIN conns[s] : conns[s][c].stream = "broken"}

\* broadcast_event: the dict after the call
broadcast_event(conns, s) ==
  IF s \notin DOMAIN conns THEN conns
  ELSE UnregisterAll(Touch(conns, s, DOMAIN conns[s] \ FailedClients(conns, s)),
                     s, FailedClients(conns, s))

\* send_heartbeat, one client of the inner loop
HeartbeatClient(conns, s, c) ==
  LET conn == conns[s][c] IN
  IF conn.age = Stale THEN unregister_connection(conns, s, c)
  ELSE IF conn.age = Due
       THEN IF conn.stream = "ok" THEN Touch(conns, s, {c})
            ELSE unregister_connection(conns, s, c)
       ELSE conns

\* send_heartbeat, the inner loop over list(self.connections[s].items())
RECURSIVE HeartbeatClients(_, _, _)
HeartbeatClients(conns, s, cs) ==
  IF cs = {} THEN conns
  ELSE LET c == CHOOSE x \in cs : TRUE
       IN HeartbeatClients(HeartbeatClient(conns, s, c), s, cs \ {c})

\* send_heartbeat, the outer loop over list(self.connections.keys())
RECURSIVE HeartbeatSessions(_, _)
HeartbeatSessions(conns, ss) ==
  IF ss = {} THEN conns
  ELSE LET s == CHOOSE x \in ss : TRUE
       IN HeartbeatSessions(HeartbeatClients(conns, s, DOMAIN conns[s]), ss \ {s})

Registered(conns) == {<<s, c>> : s \in DOMAIN conns, c \in Clients} \cap
                     {p \in Sessions \X Clients : p[2] \in DOMAIN conns[p[1]]}

Called(op, ret, after) ==
  /\ connections' = after
  /\ mgr_last' = [op |-> op, ret |-> ret,
                  dropped |-> Registered(connections) \ Registered(after)]
  /\ UNCHANGED <<diffVars, launched, sandboxVars>>

Register(s, c, stream) ==
  Called("register_connection", 1, register_connection(connections, s, c, stream))

Unregister(s, c) ==
  Called("unregister_connection",
         IF s \in DOMAIN connections /\ c \in DOMAIN connections[s] THEN 1 ELSE 0,
         unregister_connection(connections, s, c))

Broadcast(s) ==
  Called("broadcast_event",
         IF s \in DOMAIN connections
         THEN Cardinality(DOMAIN connections[s] \ FailedClients(connections, s))
         ELSE 0,
         broadcast_event(connections, s))

SendHeartbeat ==
  Called("send_heartbeat", 0, HeartbeatSessions(connections, DOMAIN connections))

\* a client goes away: writes to its stream raise from now on
StreamBreaks(s, c) ==
  /\ s \in DOMAIN connections /\ c \in DOMAIN connections[s]
  /\ connections[s][c].stream = "ok"
  /\ connections' = Put(connections, s,
                        Put(connections[s], c, [connections[s][c] EXCEPT !.stream = "broken"]))
  /\ UNCHANGED <<mgr_last, diffVars, launched, sandboxVars>>

\* time passes for every connection
TimePasses ==
  /\ \E s \in DOMAIN connections : \E c \in DOMAIN connections[s] :
       connections[s][c].age < Stale
  /\ connections' = [s \in DOMAIN connections |->
                       [c \in DOMAIN connections[s] |->
                          [connections[s][c] EXCEPT
                             !.age = IF @ < Stale THEN @ + 1 ELSE @]]]
  /\ UNCHANGED <<mgr_last, diffVars, launched, sandboxVars>>

NextManager ==
  \/ \E s \in Sessions, c \in Clients, t \in Streams : Register(s, c, t)
  \/ \E s \in Sessions, c \in Clients : Unregister(s, c)
  \/ \E s \in Sessions : Broadcast(s)
  \/ SendHeartbeat
  \/ \E s \in Sessions, c \in Clients : StreamBreaks(s, c)
  \/ TimePasses

SpecManager == Init /\ [][NextManager]_vars

\* ------------------------------------------------------- claim helpers
Last(q) == q[Len(q)]
ResultEvents(r) == {k \in 1..Len(events[r]) : events[r][k].type = "test_result"}
AllCompiled(r) == ci[r] = Len(Blobs(mode[r])) /\ lastCompile[r] = "status"
StepRoles == <<"gen", "user", "std">>
RolePrefix(role) ==
  IF role = "gen" THEN "Generator" ELSE IF role = "user" THEN "User" ELSE "Std"

\* C1: when the end-of-iteration check of a start or rerun run finds the
\* session in the stop-flag set, the case just completed is persisted and a
\* test_result event carrying it precedes the terminal finish event.
C1_StopEmitsInFlightCase ==
  \A r \in Runs :
    stopSeen[r] =>
      /\ persisted[r] # <<>>
      /\ Last(persisted[r]) \in db
      /\ Last(events[r]).type = "finish"
      /\ \E k \in ResultEvents(r) : events[r][k].tc = Last(persisted[r])

\* C2: a stream holds at most one terminal event and nothing follows it; a
\* run that ended without being abandoned or aborted by an exception ends
\* with exactly one terminal event.
C2_OneTerminalEvent ==
  \A r \in Runs :
    /\ \A k \in 1..Len(events[r]) :
         events[r][k].type \in Terminal => k = Len(events[r])
    /\ pc[r] = "done" =>
         events[r] # <<>> /\ Last(events[r]).type \in Terminal

C2_Witness ==
  \E r \in Runs :
    /\ pc[r] = "done" /\ stopSeen[r]
    /\ Cardinality({k \in 1..Len(events[r]) :
                      events[r][k].type \in Terminal}) = 1

\* C3: an exception raised in the controller after the stream has begun does
\* not leave the generator (the stream ends with one error event instead):
\* no run that has emitted an event ends with the exception propagated.
C3_ExceptionBecomesErrorEvent ==
  \A r \in Runs :
    pc[r] = "raised" => events[r] = <<>>

\* C4: in a start run a non-OK case ends the loop: only the last persisted
\* case can be non-OK, no judge step follows it, its test_result is the last
\* non-terminal event and finish follows it directly.
C4_StartStopsAtFirstFailure ==
  \A r \in Runs :
    mode[r] = "start" =>
      /\ \A k \in 1..(Len(persisted[r]) - 1) : persisted[r][k].status = StatusOK
      /\ \A k \in ResultEvents(r) :
           events[r][k].tc.status # StatusOK =>
             /\ events[r][k].tc = Last(persisted[r])
             /\ \A j \in ResultEvents(r) :
                  j < k => events[r][j].tc.status = StatusOK
             /\ \/ k = Len(events[r])
                \/ k = Len(events[r]) - 1 /\ Last(events[r]).type = "finish"
      /\ (persisted[r] # <<>> /\ Last(persisted[r]).status # StatusOK) =>
           /\ pc[r] \in {"final_result", "finish_yield", "done", "abandoned"}
           /\ \E k \in ResultEvents(r) : events[r][k].tc = Last(persisted[r])
           /\ pc[r] = "done" => /\ Last(events[r]).type = "finish"
                                /\ Len(events[r]) - 1 \in ResultEvents(r)

C4_Witness ==
  \E r \in Runs :
    /\ mode[r] = "start" /\ pc[r] = "done"
    /\ Len(persisted[r]) = 2
    /\ persisted[r][1].status = StatusOK
    /\ persisted[r][2].status = Prefixed("User", "RE")
    /\ Last(events[r]).type = "finish"

\* C5: a start run with budget N whose compiles all succeed, whose judge
\* steps all end OK and that sees no stop persists exactly N cases and emits
\* exactly N test_result events, all OK, followed by finish.
C5_FullRunPersistsN ==
  \A r \in Runs :
    ( /\ mode[r] = "start" /\ pc[r] = "done"
      /\ AllCompiled(r) /\ ~stopSeen[r]
      /\ \A k \in 1..Len(persisted[r]) : persisted[r][k].status = StatusOK )
    =>
      /\ Len(persisted[r]) = max_tests[r]
      /\ Cardinality({t \in db : t.session_id = sid[r]}) = max_tests[r]
      /\ Cardinality(ResultEvents(r)) = max_tests[r]
      /\ \A k \in ResultEvents(r) : events[r][k].tc.status = StatusOK
      /\ {events[r][k].tc : k \in ResultEvents(r)} =
           {persisted[r][k] : k \in 1..Len(persisted[r])}
      /\ Last(events[r]).type = "finish"

C5_Witness ==
  \E r \in Runs :
    /\ mode[r] = "start" /\ pc[r] = "done" /\ ~stopSeen[r]
    /\ max_tests[r] = MaxTests
    /\ Len(persisted[r]) = MaxTests
    /\ \A k \in 1..Len(persisted[r]) : persisted[r][k].status = StatusOK

\* C6: a rerun run stops at the first stored case whose judge step is not
\* OK: no later case is executed, so only the last case it persisted can be
\* non-OK, and that case's test_result is the last non-terminal event.
C6_RerunStopsAtFirstFailure ==
  \A r \in Runs :
    mode[r] = "rerun" =>
      /\ \A k \in 1..(Len(persisted[r]) - 1) : persisted[r][k].status = StatusOK
      /\ \A k \in ResultEvents(r) :
           events[r][k].tc.status # StatusOK =>
             \/ k = Len(events[r])
             \/ k = Len(events[r]) - 1 /\ Last(events[r]).type = "finish"

\* C7: a case is stored as OK only if every program run in its judge step
\* had verdict OK and the output comparison accepted the user output.
C7_OkMeansAllVerdictsOk ==
  \A r \in Runs :
    (persisted[r] # <<>> /\ cur[r] = Last(persisted[r])
       /\ cur[r].status = StatusOK) =>
      /\ \A k \in 1..Len(progs[r]) : progs[r][k].type = "OK"
      /\ normalized(cur[r].user_output) = normalized(cur[r].std_output)

\* C8: in rerun a non-OK user run is persisted as 'User <kind>' without the
\* reference being run, a non-OK reference run after an OK user run as
\* 'Std <kind>'; the comparison never replaces such a status by WA or OK.
C8_RerunKeepsPrefixedStatus ==
  \A r \in Runs :
    (mode[r] = "rerun" /\ pc[r] = "rerun_result") =>
      /\ progs[r][1].type # "OK" =>
           /\ cur[r].status = Prefixed("User", progs[r][1].type)
           /\ Len(progs[r]) = 1
      /\ (progs[r][1].type = "OK" /\ Len(progs[r]) = 2
            /\ progs[r][2].type # "OK") =>
           cur[r].status = Prefixed("Std", progs[r][2].type)

\* C9: a start judge step runs generator, user, reference in that order; the
\* first non-OK verdict sets the prefixed status, no later program runs in
\* that iteration and the case is persisted before the loop ends.
C9_StartStepOrder ==
  \A r \in Runs :
    mode[r] = "start" =>
      /\ Len(progs[r]) <= 3
      /\ \A k \in 1..Len(progs[r]) : progs[r][k].role = StepRoles[k]
      /\ \A k \in 1..(Len(progs[r]) - 1) : progs[r][k].type = "OK"
      /\ (progs[r] # <<>> /\ Last(progs[r]).type # "OK") =>
           /\ cur[r].status =
                Prefixed(RolePrefix(Last(progs[r]).role), Last(progs[r]).type)
           /\ cur[r] \in db
           /\ cur[r] = Last(persisted[r])
           /\ pc[r] \in {"final_result", "finish_yield", "done", "abandoned"}

C9_Witness ==
  \E r \in Runs :
    /\ mode[r] = "start" /\ pc[r] = "final_result"
    /\ Len(progs[r]) = 2 /\ progs[r][2].type = "TLE"
    /\ cur[r].status = Prefixed("User", "TLE")
    /\ cur[r] \in db

\* C10: the scratch directory never outlives its run: it is gone after
\* finish, after failed, after a stop, after an exception and after the
\* client disconnected.
C10_ScratchDirReleased ==
  \A r \in Runs :
    /\ pc[r] \in {"idle", "created", "done", "abandoned", "raised"}
         => ~temp_dir[r]
    /\ pc[r] \in Suspended \cup {"user_running", "std_running"} => temp_dir[r]

C10_Witness ==
  \E r \in Runs :
    /\ pc[r] = "abandoned" /\ ~temp_dir[r]
    /\ events[r] # <<>> /\ Last(events[r]).type = "test_result"

Range(q) == {q[k] : k \in 1..Len(q)}
SessionRows(d, s) == {t \in d : t.session_id = s}

\* C11: in start the stop flag is cleared and the session's earlier cases are
\* deleted before the first status event; from then on the session holds
\* exactly the cases this run persisted, each one unchanged.
C11_ReplaceThenAppendOnly ==
  [][\A r \in Runs :
       mode'[r] = "start" =>
         /\ (events[r] = <<>> /\ events'[r] # <<>>) =>
              /\ sid'[r] \notin request_stop_set'
              /\ SessionRows(db', sid'[r]) = {}
              /\ events'[r][1].type = "status"
         /\ events'[r] # <<>> =>
              SessionRows(db', sid'[r]) = Range(persisted'[r])
         /\ Range(persisted[r]) \subseteq db'
         /\ \A k \in 1..Len(persisted[r]) : persisted'[r][k] = persisted[r][k]
    ]_vars

C11_Witness ==
  \E r \in Runs :
    /\ mode[r] = "start" /\ sid[r] = 1
    /\ Len(persisted[r]) = 2
    /\ nextId > Len(persisted[r]) + 2
    /\ SessionRows(db, 1) = Range(persisted[r])

IsRunning(e) == e.type = "status" /\ e.what = "Running test"
RunningUpTo(r, j) == Cardinality({k \in 1..j : IsRunning(events[r][k])})
ResultsUpTo(r, j) == Cardinality({k \in 1..j : events[r][k].type = "test_result"})

\* C12: in a start run the status event of test k precedes the test_result
\* of test k, which precedes the status event of test k+1, and a test_result
\* carries a case that has been committed.
C12_StartEventOrder ==
  \A r \in Runs :
    mode[r] = "start" =>
      \A j \in 1..Len(events[r]) :
        /\ IsRunning(events[r][j]) =>
             /\ events[r][j].num = RunningUpTo(r, j)
             /\ events[r][j].total = max_tests[r]
             /\ ResultsUpTo(r, j) = events[r][j].num - 1
        /\ events[r][j].type = "test_result" =>
             /\ RunningUpTo(r, j) = ResultsUpTo(r, j)
             /\ ResultsUpTo(r, j) <= Len(persisted[r])
             /\ events[r][j].tc = persisted[r][ResultsUpTo(r, j)]
             /\ events[r][j].tc \in db

C12_Witness ==
  \E r \in Runs :
    /\ mode[r] = "start" /\ pc[r] = "test_status"
    /\ RunningUpTo(r, Len(events[r])) = 2
    /\ ResultsUpTo(r, Len(events[r])) = 1

Running(r) == pc[r] \in Suspended \cup {"user_running", "std_running"}

\* C13: with no other run of the session, a stop issued while the run is
\* under way stays in the stop-flag set, and once an iteration ends with the
\* session in the set the run executes no further judge step: a stop ends
\* the run at the end of the iteration under way, or of the following one
\* when it arrives between two iterations.
C13_StopEndsAtNextBoundary ==
  [][\A r \in Runs :
       /\ stopHist'[r] =>
            pc'[r] \in {"final_result", "finish_yield", "done", "abandoned"}
       /\ (Running(r) /\ Running(r)' /\ sid[r] \in request_stop_set) =>
            sid'[r] \in request_stop_set'
       /\ (pc[r] = "rerun_result" /\ pc'[r] = "test_status") =>
            sid[r] \notin request_stop_set
       /\ (pc[r] = "std_running" /\ pc'[r] = "loop_result") =>
            sid[r] \notin request_stop_set
    ]_vars

C13_Witness ==
  \E r \in Runs :
    /\ pc[r] = "done" /\ stopHist[r]
    /\ Len(persisted[r]) = 1 /\ Last(persisted[r]).status = StatusOK
    /\ (mode[r] = "start" => max_tests[r] = 2)
    /\ (mode[r] = "rerun" => Len(test_cases[r]) = 2)

\* C14: stop(s) is idempotent: every call leaves s in the stop-flag set and
\* every other member as it was, a repeated call changes nothing, and each
\* call answers {stopped: true, session_id: s} with success, whatever the
\* runs are doing.
C14_StopIdempotent ==
  [][\A s \in Sessions :
       Stop(s) =>
         /\ s \in request_stop_set'
         /\ request_stop_set' \ {s} = request_stop_set \ {s}
         /\ StopSet(request_stop_set', s) = request_stop_set'
         /\ StopReply(s).stopped /\ StopReply(s).session_id = s
         /\ StopReply(s).code = 200
    ]_vars

C14_Witness ==
  /\ request_stop_set = Sessions
  /\ \E r \in Runs : Running(r) /\ sid[r] = 1
  /\ \A r \in Runs : sid[r] # 2

\* C15: a rerun creates no TestCase, deletes none and leaves every input_data
\* as it was, also when it ends on a compile failure or on a stop; only the
\* cases it has re-executed differ from what the table held before, and those
\* only in user_output, std_output, status, time_used and memory_used.
Frame(t) == [id |-> t.id, session_id |-> t.session_id, input_data |-> t.input_data]

C15_RerunFrame ==
  \A r \in Solo :
    mode[r] = "rerun" =>
      /\ {Frame(t) : t \in db} = {Frame(StoredCase(k)) : k \in 1..(nextId - 1)}
      /\ Cardinality(db) = nextId - 1
      /\ \A t \in db :
           t.id \notin {c.id : c \in Range(persisted[r])} => t = StoredCase(t.id)

C15_Witness ==
  \E r \in Solo :
    /\ mode[r] = "rerun" /\ pc[r] = "done" /\ stopSeen[r]
    /\ Len(test_cases[r]) = 2 /\ Len(persisted[r]) = 1
    /\ Row(1) # StoredCase(1) /\ Row(2) = StoredCase(2)

\* C16: time_used and memory_used of a TestCase only ever hold what was
\* measured for the user program's run of that case, in start and in rerun:
\* the generator's and the reference's measurements never reach the record,
\* and a case whose generator failed carries no counters.
UserRuns(r) == {k \in 1..Len(progs[r]) : progs[r][k].role = "user"}
Measured(r) ==
  IF UserRuns(r) = {} THEN [time |-> NoMeasure, mem |-> NoMeasure]
  ELSE LET k == CHOOSE j \in UserRuns(r) : TRUE
       IN [time |-> progs[r][k].time, mem |-> progs[r][k].mem]
Counters(t) == [time |-> t.time_used, mem |-> t.memory_used]

C16_CountersFromUserRun ==
  [][\A r \in Solo :
       /\ progs'[r] # <<>> => Counters(cur'[r]) = Measured(r)'
       /\ persisted'[r] # persisted[r] =>
            /\ Counters(Last(persisted'[r])) = Measured(r)'
            /\ Last(persisted'[r]) \in db'
    ]_vars

C16_Witness ==
  \E r \in Solo :
    /\ pc[r] = "done" /\ persisted[r] # <<>>
    /\ Len(progs[r]) = IF mode[r] = "start" THEN 3 ELSE 2
    /\ Last(progs[r]).role = "std" /\ Last(progs[r]).type # "OK"
    /\ Counters(Last(persisted[r])) = [time |-> 2, mem |-> 1]

\* C17: start compiles user, reference, generator in that order and rerun
\* user, reference; each compile is announced by a status event "Compiling X
\* code"; the first failed compile's event is the run's last event, with no
\* further compile and no judge step after it.
CompileOrder(r) ==
  IF mode[r] = "start" THEN <<"user", "std", "gen">> ELSE <<"user", "std">>
Announce == [user |-> "Compiling user", std |-> "Compiling std", gen |-> "Compiling gen"]

C17_CompileOrder ==
  \A r \in Solo :
    LET E == events[r]
        n == Len(CompileOrder(r))
    IN /\ \A k \in 1..Len(E) :
            /\ (k <= 2 * n /\ k % 2 = 1) =>
                 E[k].type = "status" /\ E[k].what = Announce[CompileOrder(r)[(k + 1) \div 2]]
            /\ (k <= 2 * n /\ k % 2 = 0) =>
                 E[k].type \in {"status", "failed"} /\ E[k].what = CompileOrder(r)[k \div 2]
            /\ k > 2 * n => E[k].type \notin {"failed"} /\ E[k].what \notin {"user", "std", "gen"}
            /\ E[k].type = "failed" =>
                 /\ k = Len(E)
                 /\ pc[r] \in {"compile_result", "done", "abandoned"}
       /\ (progs[r] # <<>> \/ persisted[r] # <<>>) =>
            Len(E) > 2 * n /\ \A j \in 1..n : E[2 * j].type = "status"

C17_Witness ==
  \E r \in Solo :
    /\ mode[r] = "start" /\ pc[r] = "done" /\ Len(events[r]) = 4
    /\ events[r][4].type = "failed" /\ events[r][4].what = "std"
    /\ events[r][2].type = "status" /\ events[r][2].what = "user"

\* C18: when a compile fails in a start run, the failed event names the blob
\* that failed in front of the compiler's message, the run has emitted no
\* test_result and persisted no TestCase, and the session has no TestCases.
C18_CompileFailureLeavesNothing ==
  \A r \in Solo :
    (mode[r] = "start" /\ events[r] # <<>> /\ Last(events[r]).type = "failed") =>
      /\ Last(events[r]).what = <<"user", "std", "gen">>[Len(events[r]) \div 2]
      /\ \A k \in 1..Len(events[r]) : events[r][k].type # "test_result"
      /\ persisted[r] = <<>>
      /\ {t \in db : t.session_id = sid[r]} = {}

C18_Witness ==
  \E r \in Solo :
    /\ mode[r] = "start" /\ pc[r] = "done" /\ sid[r] = 1 /\ nextId = 3
    /\ Len(events[r]) = 6 /\ Last(events[r]).type = "failed"
    /\ Last(events[r]).what = "gen"

\* C19: every record returned by sse_response has the form 'event: <type>'
\* newline 'data: <json>' newline newline: it ends with a blank line, so that
\* consecutive records of a run are separated by an empty line.
C19_RecordEndsWithBlankLine ==
  \A r \in Solo :
    \A k \in 1..Len(events[r]) :
      LET w == events[r][k].wire
          n == Len(w)
      IN /\ n >= 4
         /\ w[1] = "event: " /\ w[2] = events[r][k].type /\ w[3] = "\n"
         /\ w[4] = "data: "
         /\ w[n] = "\n" /\ w[n - 1] = "\n"
         /\ \A j \in 5..(n - 2) : w[j] # "\n"

\* C20: a start run is only executed with a budget in [1,1000] that equals
\* the max_tests of the request; a request below 1 or above 1000 is rejected,
\* and no run begins more judge steps than the request asked for.
JudgeSteps(r) == Cardinality({k \in 1..Len(events[r]) : IsRunning(events[r][k])})

C20_BudgetIsRequested ==
  \A r \in Solo :
    (mode[r] = "start" /\ pc[r] \notin {"idle", "created"}) =>
      /\ requested[r] \in 1..MaxTestsLimit
      /\ max_tests[r] = requested[r]
      /\ JudgeSteps(r) <= requested[r]

\* C21: a sandboxed run is reported with verdict kind OK exactly when the child
\* exited normally with exit code 0, so the controller never takes a run that
\* exited with a nonzero code for a passed generator, user or reference run.
ExitedZero(st) == st.how = "exited" /\ st.code = 0

C21_OkIffExitZero ==
  \A k \in 1..Len(launched) :
    /\ launched[k].type = "OK" <=> ExitedZero(launched[k].st)
    /\ ~Failed(launched[k]) => ExitedZero(launched[k].st)

\* C22: compiling a blob whose language is not one of the supported C/C++
\* identifiers fails with an error before any compiler or program command is
\* run in the sandbox; a blob in a supported language gets its compile command.
SupportedLangs == {"c", "c11", "c17", "cpp", "c++11", "c++17", "c++20"}

C22_UnknownLanguageRunsNothing ==
  sb_result.kind # "none" =>
    /\ lower(sb_req.lang) \notin SupportedLangs =>
         sb_result.kind = "raised" /\ sb_cmds = <<>>
    /\ lower(sb_req.lang) \in SupportedLangs =>
         sb_result.kind = "returned" /\ sb_cmds # <<>>

C22_Witness ==
  /\ sb_req.lang = "java" /\ sb_result.kind = "raised"
  /\ sb_result.error = "ValueError" /\ sb_cmds = <<>>

\* C23: a stop of session s issued while a run of s is under way is not lost
\* when a second run of s begins: the session stays in the stop-flag set
\* while the first run goes on, until that run's end-of-iteration test.
C23_StopSurvivesSecondRun ==
  [][\A r \in Runs :
       (Running(r) /\ Running(r)' /\ sid[r] \in request_stop_set) =>
         sid[r] \in request_stop_set'
    ]_vars

\* C24: when a start run emits finish, every TestCase it persisted is still
\* stored and the session holds as many cases as the run persisted, also when
\* another start run of the session overlaps with it.
EmitsFinish(r) ==
  /\ Len(events'[r]) = Len(events[r]) + 1
  /\ events'[r][Len(events'[r])].type = "finish"

C24_OverlapKeepsCases ==
  [][\A r \in Runs :
       (mode[r] = "start" /\ EmitsFinish(r)) =>
         /\ Range(persisted'[r]) \subseteq db'
         /\ Cardinality(SessionRows(db', sid[r])) = Len(persisted'[r])
    ]_vars

\* C25: every test_result event's test_num equals the k of the 'Running test
\* k/N' status event emitted for that test, in start and in rerun, also when
\* a failed judge step ends the run before the budget is used up.
RunningBefore(r, j) == {k \in 1..(j - 1) : IsRunning(events[r][k])}
LastRunningBefore(r, j) ==
  CHOOSE k \in RunningBefore(r, j) : \A m \in RunningBefore(r, j) : m <= k

C25_TestNumIsRunningLabel ==
  \A r \in Solo :
    \A j \in 1..Len(events[r]) :
      events[r][j].type = "test_result" =>
        /\ RunningBefore(r, j) # {}
        /\ events[r][j].num = events[r][LastRunningBefore(r, j)].num

\* C26: a stop of s made before a run of s begins executing does not shorten
\* the run: the run takes s out of the stop-flag set before its first event,
\* only a stop request puts it back, and a run that ends with s not in the
\* set has used up its budget or ended on a failed compile or judge step.
RanToEnd(r) ==
  \/ Last(events[r]).type = "failed"
  \/ mode[r] = "start" /\ persisted[r] # <<>>
       /\ (Len(persisted[r]) = max_tests[r] \/ Last(persisted[r]).status # StatusOK)
  \/ mode[r] = "rerun" /\ Len(persisted[r]) = Len(test_cases[r])

C26_EarlyStopIsDiscarded ==
  [][\A r \in Solo :
       /\ (events[r] = <<>> /\ events'[r] # <<>>) =>
            sid'[r] \notin request_stop_set'
       /\ (Running(r) /\ sid[r] \notin request_stop_set
             /\ sid[r] \in request_stop_set') => Stop(sid[r])
       /\ (pc[r] # "done" /\ pc'[r] = "done" /\ sid[r] \notin request_stop_set) =>
            RanToEnd(r)'
    ]_vars

C26_Witness ==
  \E r \in Solo :
    /\ cleared[r] /\ pc[r] = "done" /\ ~stopSeen[r]
    /\ mode[r] = "start" /\ max_tests[r] = MaxTests
    /\ Len(persisted[r]) = MaxTests
    /\ Last(persisted[r]).status = StatusOK

\* C27: at every event after which the client can abandon the stream, every
\* TestCase whose judge step has completed in the run is committed: the table
\* holds the case of each completed step, and a disconnect leaves them there.
CompletedSteps(r) ==
  JudgeSteps(r) - (IF pc[r] = "test_status" THEN 1 ELSE 0)

C27_CompletedCasesAreCommitted ==
  \A r \in Solo :
    pc[r] \in Suspended \cup {"abandoned", "done"} =>
      /\ \A k \in ResultEvents(r) : events[r][k].tc \in db
      /\ (pc[r] # "abandoned" /\ CompletedSteps(r) > 0) => cur[r] \in db
      /\ (pc[r] # "abandoned" /\ mode[r] = "start") =>
           Cardinality(SessionRows(db, sid[r])) = CompletedSteps(r)
      /\ (pc[r] = "abandoned" /\ mode[r] = "start" /\ events[r] # <<>>) =>
           Cardinality(SessionRows(db, sid[r])) \in {JudgeSteps(r) - 1, JudgeSteps(r)}
      /\ (pc[r] = "abandoned" /\ JudgeSteps(r) > 1) => cur[r] \in db

C27_Witness ==
  \E r \in Solo :
    /\ pc[r] = "abandoned" /\ mode[r] = "start" /\ max_tests[r] = MaxTests
    /\ JudgeSteps(r) = 1 /\ Last(events[r]).type = "test_result"
    /\ cur[r] \in db /\ cur[r].status # StatusOK

\* C28: stop flags are per session: a run ends on a stop only when its own
\* session is in the stop-flag set, a stop of another session changes neither
\* the run's position nor its events, and entering a run of t removes no
\* session other than t from the set.
C28_FlagsArePerSession ==
  [][\A r \in Solo :
       /\ \A s \in Sessions :
            (s \in request_stop_set /\ s \notin request_stop_set') =>
              s = sid[r] /\ events[r] = <<>> /\ events'[r] # <<>>
       /\ (stopSeen'[r] /\ ~stopSeen[r]) => sid[r] \in request_stop_set
       /\ \A s \in Sessions \ {sid[r]} :
            Stop(s) => pc'[r] = pc[r] /\ events'[r] = events[r]
                         /\ (sid[r] \in request_stop_set' <=> sid[r] \in request_stop_set)
    ]_vars

C28_Witness ==
  \E r \in Solo :
    /\ sid[r] = 1 /\ request_stop_set = {2} /\ cleared[r]
    /\ pc[r] = "done" /\ ~stopSeen[r] /\ mode[r] = "start"
    /\ Len(persisted[r]) = MaxTests /\ max_tests[r] = MaxTests

\* C29: in execute_code the directory returned by _prepare_code exists and
\* holds the staged source file, and the input file when there is input, at
\* the moment the compile command and the run command are executed.
C29_ScratchDirLiveAtCommands ==
  \A k \in 1..Len(sb_cmds) :
    /\ sb_cmds[k].exists
    /\ CompileSource(lower(sb_req.lang)) \in sb_cmds[k].files
    /\ Truthy(sb_req.input_data) => "input.txt" \in sb_cmds[k].files

\* C30: after any sequence of register_connection, unregister_connection,
\* broadcast_event and send_heartbeat calls, connections maps no session to
\* an empty client map, also after clients were dropped because a write to
\* them failed or because they went stale.
C30_NoEmptySession ==
  /\ \A s \in DOMAIN connections : DOMAIN connections[s] # {}
  /\ \A p \in mgr_last.dropped :
       p[1] \in DOMAIN connections => p[2] \notin DOMAIN connections[p[1]]

C30_Witness ==
  /\ mgr_last.op \in {"broadcast_event", "send_heartbeat"}
  /\ mgr_last.dropped = {<<1, 1>>, <<1, 2>>}
  /\ DOMAIN connections = {2}

====
